---- MODULE Spec2Model ----
(***************************************************************************)
(* Model of kaizen's data preparation (prepare_data in                     *)
(* kaizen/utils/classification_dataloader.py) and of the predictive        *)
(* distillation wrapper (kaizen/distillers/predictive.py).                 *)
(*                                                                         *)
(* Optional values are sequences: <<>> is Python's None (or an argument    *)
(* the caller did not supply), <<v>> is the value v.  Fractions are pairs  *)
(* <<numerator, denominator>>.  A dataset is the sequence of the sample    *)
(* ids it yields, in order; a sample id may occur more than once.          *)
(***************************************************************************)
EXTENDS Integers, Sequences, FiniteSets, TLC

VARIABLES cfg, result, prevResult, globalRng,
          distill_lamb, lr, weight_decay, distill_predictor, params, step

vars == <<cfg, result, prevResult, globalRng,
          distill_lamb, lr, weight_decay, distill_predictor, params, step>>

dataVars == <<cfg, result, prevResult, globalRng>>
distillVars == <<distill_lamb, lr, weight_decay, distill_predictor, params, step>>

---------------------------------------------------------------------------
(* Bounds of the model *)

\* number of tasks of the continual-learning stream (one class per task)
NumTasks == 3
\* samples of each class in the training dataset
PerClass == 2
\* largest split seed a caller passes
MaxSeed == 1
\* largest replay memory bank size a caller passes
MaxBank == 2
\* number of states of the process-global random generator
RngStates == 2
\* largest base learning rate
MaxLr == 2

---------------------------------------------------------------------------
(* Optional values and fractions *)

None == <<>>
Some(v) == <<v>>
IsNone(o) == o = <<>>
Val(o) == o[1]

Frac(n, d) == <<n, d>>
\* floor(f * n) for a fraction f and a natural n
FloorMul(f, n) == (f[1] * n) \div f[2]

Take(s, k) == SubSeq(s, 1, IF k < Len(s) THEN k ELSE Len(s))
Rotate(s, r) ==
    IF s = <<>> THEN s
    ELSE [i \in 1..Len(s) |-> s[((i - 1 + r) % Len(s)) + 1]]
Elems(s) == {s[i] : i \in 1..Len(s)}

RECURSIVE SumOver(_, _)
SumOver(S, f) ==
    IF S = {} THEN 0
    ELSE LET x == CHOOSE y \in S : TRUE IN f[x] + SumOver(S \ {x}, f)

\* the elements of a finite set of integers, in increasing order
RECURSIVE SortedSeq(_)
SortedSeq(S) ==
    IF S = {} THEN <<>>
    ELSE LET m == CHOOSE x \in S : \A y \in S : x <= y
         IN <<m>> \o SortedSeq(S \ {m})

---------------------------------------------------------------------------
(* The training dataset (prepare_datasets): samples 1..N, classes          *)
(* interleaved; targets[i] is the label of sample i.                       *)

NumSamples == NumTasks * PerClass
train_dataset == [i \in 1..NumSamples |-> i]
Label(i) == (i - 1) % NumTasks

---------------------------------------------------------------------------
(* The callers' arguments of prepare_data *)

Sources == {"all_tasks", "current_task", "seen_tasks"}
Strategies == {"class", "random"}
Seeds == {None} \cup {Some(s) : s \in 0..MaxSeed}
\* training_task_idx: None (the default), a task index, or one past the last
TaskIdxs == {None} \cup {Some(k) : k \in 0..NumTasks}
SemiValues == {None, Some(Frac(1, 2)), Some(Frac(1, 1))}
\* replay_proportion: not supplied, 0, 1/2 or 1
Proportions == {None, Some(Frac(0, 1)), Some(Frac(1, 2)), Some(Frac(1, 1))}
BankSizes == {None} \cup {Some(b) : b \in 1..MaxBank}

Configs ==
    [training_data_source : Sources,
     training_task_idx : TaskIdxs,
     training_split_strategy : Strategies,
     training_split_seed : Seeds,
     replay : BOOLEAN,
     replay_proportion : Proportions,
     replay_memory_bank_size : BankSizes,
     semi_supervised : SemiValues]

\* the default of the replay_proportion parameter, 0.
DefaultReplayProportion == Frac(0, 1)
\* the value the parameter has inside the call
ReplayProportionArg(c) ==
    IF IsNone(c.replay_proportion) THEN DefaultReplayProportion
    ELSE Val(c.replay_proportion)

---------------------------------------------------------------------------
(* Task Partitioner: split_dataset of kaizen.utils.pretrain_dataloader     *)

SeedValue(seed) == IF IsNone(seed) THEN 0 ELSE Val(seed)

\* the task a class belongs to under a split strategy and seed
TaskOfClass(strategy, seed, c) ==
    IF strategy = "random" THEN (c + SeedValue(seed)) % NumTasks ELSE c

task_of(strategy, seed, i) == TaskOfClass(strategy, seed, Label(i))

\* task indices the partitioner rejects
TaskIdxOutOfRange(task_idxs) == \E t \in task_idxs : t < 0 \/ t > NumTasks - 1

\* the dataset restricted to the samples of the requested tasks, in order
split_dataset(dataset, task_idxs, strategy, seed) ==
    SelectSeq(dataset, LAMBDA i : task_of(strategy, seed, i) \in task_idxs)

---------------------------------------------------------------------------
(* Replay Sampler: split_dataset_subset of kaizen.utils.pretrain_dataloader *)

RECURSIVE ReplayByProportion(_, _, _, _, _)
ReplayByProportion(dataset, tasksLeft, strategy, seed, proportion) ==
    IF tasksLeft = <<>> THEN <<>>
    ELSE LET sub == split_dataset(dataset, {Head(tasksLeft)}, strategy, seed)
             drawn == Take(Rotate(sub, SeedValue(seed)),
                           FloorMul(proportion, Len(sub)))
         IN drawn \o ReplayByProportion(dataset, Tail(tasksLeft), strategy,
                                        seed, proportion)

\* None for an empty list of prior tasks; otherwise a seeded draw from the
\* prior tasks' subsets, num_samples taking precedence over proportion
split_dataset_subset(dataset, replay_task_idxs, strategy, seed, proportion, num_samples) ==
    IF replay_task_idxs = {} THEN None
    ELSE IF ~IsNone(num_samples)
         THEN LET union == split_dataset(dataset, replay_task_idxs, strategy, seed)
              IN Some(Take(Rotate(union, SeedValue(seed)), Val(num_samples)))
         ELSE Some(ReplayByProportion(dataset, SortedSeq(replay_task_idxs),
                                      strategy, seed, proportion))

---------------------------------------------------------------------------
(* Semi-Supervised Subsampler: sklearn's train_test_split with stratify,   *)
(* called on range(len(dataset)) with the dataset's targets.  A random     *)
(* generator is an integer state r; every draw is a function of r.         *)

Positions(items) == 1..Len(items)
Targets(items) == [p \in Positions(items) |-> Label(items[p])]
Classes(items) == {Label(items[p]) : p \in Positions(items)}
ClassCount(items, c) == Cardinality({p \in Positions(items) : Label(items[p]) = c})
\* the positions of class c, in order
ClassIndices(items, c) ==
    SelectSeq([p \in Positions(items) |-> p], LAMBDA p : Label(items[p]) = c)

\* _approximate_mode: floor of the proportional share, the remaining draws
\* going to the classes with the largest remainders, ties broken by r
FloorShare(items, n_draws, c) == (ClassCount(items, c) * n_draws) \div Len(items)
Remainder(items, n_draws, c) == (ClassCount(items, c) * n_draws) % Len(items)
TieRank(c, r) == (c + r) % NumTasks

RECURSIVE ExtraClasses(_, _, _, _, _)
ExtraClasses(items, n_draws, need, chosen, r) ==
    LET left == Classes(items) \ chosen
    IN IF need = 0 \/ left = {} THEN chosen
       ELSE LET best == CHOOSE c \in left : \A d \in left :
                           \/ Remainder(items, n_draws, c) > Remainder(items, n_draws, d)
                           \/ /\ Remainder(items, n_draws, c) = Remainder(items, n_draws, d)
                              /\ TieRank(c, r) <= TieRank(d, r)
            IN ExtraClasses(items, n_draws, need - 1, chosen \cup {best}, r)

ApproximateMode(items, n_draws, r) ==
    LET floors == [c \in Classes(items) |-> FloorShare(items, n_draws, c)]
        need == n_draws - SumOver(Classes(items), floors)
        extra == ExtraClasses(items, n_draws, need, {}, r)
    IN [c \in Classes(items) |-> floors[c] + (IF c \in extra THEN 1 ELSE 0)]

RECURSIVE DrawPerClass(_, _, _, _)
DrawPerClass(items, classesLeft, n_i, r) ==
    IF classesLeft = <<>> THEN <<>>
    ELSE LET c == Head(classesLeft)
         IN Take(Rotate(ClassIndices(items, c), r), n_i[c])
            \o DrawPerClass(items, Tail(classesLeft), n_i, r)

\* train_test_split(range(n), train_size, stratify=targets, random_state)[0]:
\* [err, idxs], idxs the selected positions
train_test_split(items, train_size, r) ==
    LET n == Len(items)
        n_train == FloorMul(train_size, n)
        n_test == n - n_train
        n_classes == Cardinality(Classes(items))
        bad == \/ train_size[1] >= train_size[2]
               \/ train_size[1] <= 0
               \/ n_train = 0
               \/ \E c \in Classes(items) : ClassCount(items, c) < 2
               \/ n_train < n_classes
               \/ n_test < n_classes
    IN IF bad THEN [err |-> "ValueError", idxs |-> <<>>]
       ELSE LET n_i == ApproximateMode(items, n_train, r)
                drawn == DrawPerClass(items, SortedSeq(Classes(items)), n_i, r)
            IN [err |-> "none", idxs |-> Rotate(drawn, r)]

\* Subset(dataset, idxs)
Subset(items, idxs) == [j \in 1..Len(idxs) |-> items[idxs[j]]]

\* ConcatDataset([a, b])
ConcatDataset(a, b) == a \o b

\* torch's ConcatDataset has no targets attribute; the datasets of
\* prepare_datasets and the partitioner's subsets expose their labels
HasTargets(kind) == kind # "ConcatDataset"

---------------------------------------------------------------------------
(* Data Preparation Orchestrator: prepare_data                             *)

\* the calls the model makes: a caller that partitions by task passes an
\* integer training_task_idx
CallConfigs ==
    {c \in Configs :
        c.training_data_source # "all_tasks" => ~IsNone(c.training_task_idx)}

\* range(training_task_idx) in place of range(training_task_idx + 1)
SeenTaskIdxsExclusive(k) == 0..(k - 1)

\* task_idxs = [i for i in range(training_task_idx + 1)]
SeenTaskIdxs(k) == 0..k

\* range(training_task_idx + 1) in place of range(training_task_idx)
ReplayTaskIdxsInclusive(k) == 0..k

\* range(1, training_task_idx + 1) in place of range(training_task_idx)
ReplayTaskIdxsShifted(k) == 1..k

\* replay_task_idxs = [i for i in range(training_task_idx)]
ReplayTaskIdxs(k) == 0..(k - 1)

\* the seen_tasks branch passing the single index, as current_task does
PartitionerTaskIdxsCurrentOnly(c) == {Val(c.training_task_idx)}

\* the task indices handed to the Task Partitioner
PartitionerTaskIdxs(c) ==
    IF c.training_data_source = "current_task"
    THEN {Val(c.training_task_idx)}
    ELSE SeenTaskIdxs(Val(c.training_task_idx))

NoResult ==
    [called |-> FALSE, err |-> "none", raisedAt |-> 0,
     partitioner_task_idxs |-> {}, primary |-> None,
     samplerCalled |-> FALSE, replay_task_idxs |-> {}, replay_dataset |-> None,
     concatenated |-> FALSE, augmented |-> None,
     subsampled |-> FALSE, usedGlobalRng |-> FALSE,
     kind |-> "none", train |-> None, loaders |-> FALSE]

\* the branch on training_data_source
SplitStage(c) ==
    IF c.training_data_source = "all_tasks"
    THEN [NoResult EXCEPT !.called = TRUE, !.kind = "Dataset",
                          !.primary = Some(train_dataset)]
    ELSE LET idxs == PartitionerTaskIdxs(c)
             at == IF c.training_data_source = "current_task" THEN 315 ELSE 325
         IN IF TaskIdxOutOfRange(idxs)
            THEN [NoResult EXCEPT !.called = TRUE, !.partitioner_task_idxs = idxs,
                                  !.err = "ConfigurationError", !.raisedAt = at]
            ELSE [NoResult EXCEPT !.called = TRUE, !.partitioner_task_idxs = idxs,
                                  !.kind = "Split",
                                  !.primary = Some(split_dataset(train_dataset, idxs,
                                      c.training_split_strategy, c.training_split_seed))]

\* the test guarding the wrong source
ReplayForbiddenWrongSource(c) == c.training_data_source = "seen_tasks" /\ c.replay

\* if training_data_source == "all_tasks" and replay
ReplayForbidden(c) == c.training_data_source = "all_tasks" /\ c.replay

\* the replay branch: rejection for all_tasks, else sampling and concatenation;
\* range(None) raises TypeError
ReplayStage(c, s) ==
    IF s.err # "none" THEN s
    ELSE IF ReplayForbidden(c)
    THEN [s EXCEPT !.err = "Exception", !.raisedAt = 335]
    ELSE IF c.replay /\ IsNone(c.training_task_idx)
    THEN [s EXCEPT !.err = "TypeError", !.raisedAt = 340]
    ELSE IF c.replay
    THEN LET idxs == ReplayTaskIdxs(Val(c.training_task_idx))
             replay_dataset == split_dataset_subset(train_dataset, idxs,
                                   c.training_split_strategy, c.training_split_seed,
                                   ReplayProportionArg(c), c.replay_memory_bank_size)
             t == [s EXCEPT !.samplerCalled = TRUE, !.replay_task_idxs = idxs,
                            !.replay_dataset = replay_dataset]
         IN IF ~IsNone(replay_dataset)
            THEN [t EXCEPT !.concatenated = TRUE, !.kind = "ConcatDataset",
                           !.augmented = Some(ConcatDataset(Val(s.primary),
                                                            Val(replay_dataset)))]
            ELSE [t EXCEPT !.augmented = s.primary]
    ELSE [s EXCEPT !.augmented = s.primary]

\* the semi_supervised branch; r is the state of the process-global generator,
\* used when random_state (training_split_seed) is None
SemiStage(c, s, r) ==
    IF s.err # "none" THEN s
    ELSE IF IsNone(c.semi_supervised) THEN [s EXCEPT !.train = s.augmented]
    ELSE IF ~HasTargets(s.kind)
    THEN [s EXCEPT !.err = "AttributeError", !.raisedAt = 354]
    ELSE LET random_state == IF IsNone(c.training_split_seed) THEN r
                             ELSE Val(c.training_split_seed)
             split == train_test_split(Val(s.augmented), Val(c.semi_supervised),
                                       random_state)
         IN IF split.err # "none"
            THEN [s EXCEPT !.err = split.err, !.raisedAt = 351]
            ELSE [s EXCEPT !.subsampled = TRUE, !.kind = "Subset",
                           !.usedGlobalRng = IsNone(c.training_split_seed),
                           !.train = Some(Subset(Val(s.augmented), split.idxs))]

\* prepare_dataloaders wraps the final subset; reached only without an error
LoaderStage(s) ==
    IF s.err # "none" THEN s ELSE [s EXCEPT !.loaders = TRUE]

\* the outcome of one call of prepare_data
prepare_data(c, r) == LoaderStage(SemiStage(c, ReplayStage(c, SplitStage(c)), r))

\* one call; a draw from the process-global generator advances it
PrepareData ==
    /\ ~prevResult.called
    /\ LET out == prepare_data(cfg, globalRng)
       IN /\ result' = out
          /\ prevResult' = result
          /\ globalRng' = IF out.usedGlobalRng THEN (globalRng + 1) % RngStates
                          ELSE globalRng
    /\ UNCHANGED <<cfg, distillVars>>

---------------------------------------------------------------------------
(* Exact arithmetic on fractions <<n, d>> with d > 0, kept in lowest terms *)

Abs(x) == IF x < 0 THEN -x ELSE x

RECURSIVE Gcd(_, _)
Gcd(a, b) == IF b = 0 THEN a ELSE Gcd(b, a % b)

Norm(f) ==
    LET g == Gcd(Abs(f[1]), f[2])
    IN IF f[1] = 0 THEN <<0, 1>> ELSE <<f[1] \div g, f[2] \div g>>

Add(a, b) == Norm(<<a[1] * b[2] + b[1] * a[2], a[2] * b[2]>>)
Mul(a, b) == Norm(<<a[1] * b[1], a[2] * b[2]>>)
\* a / b for b > 0
Div(a, b) == Norm(<<a[1] * b[2], a[2] * b[1]>>)
Half(a) == Norm(<<a[1], a[2] * 2>>)
IsZero(a) == a[1] = 0
AtLeastOne(a) == a[1] >= a[2]

---------------------------------------------------------------------------
(* Distillation Loss Coupler: PredictiveDistillWrapper                     *)

\* distill_lamb values: 0, 1/4, 1/2, 1, 2
Lambs == {Frac(0, 1), Frac(1, 4), Frac(1, 2), Frac(1, 1), Frac(2, 1)}
Lrs == {Frac(l, 1) : l \in 1..MaxLr}
WeightDecays == {Frac(0, 1), Frac(1, 100)}
\* primary losses the parent's training_step returns
Losses == {Frac(1, 1), Frac(3, 2)}

\* embeddings: unit vectors at 0, 90 and 180 degrees
Emb == 0..2
Cos(a, b) == 1 - Abs(a - b)

\* byol_loss_func(p, z) = 2 - 2 * cos(p, z)
byol_loss_func(p, z) == Frac(2 - 2 * Cos(p, z), 1)

\* the parameter groups of the parent class
ParentLearnableParams ==
    <<[name |-> "parent", lr |-> lr, weight_decay |-> weight_decay]>>

\* "lr": self.lr if self.distill_lamb >= 1 else self.lr / self.distill_lamb
\* a float division by zero raises ZeroDivisionError
PredictorLr ==
    IF AtLeastOne(distill_lamb) THEN [err |-> "none", lr |-> lr]
    ELSE IF IsZero(distill_lamb)
    THEN [err |-> "ZeroDivisionError", lr |-> Frac(0, 1)]
    ELSE [err |-> "none", lr |-> Div(lr, distill_lamb)]

NoParams == [called |-> FALSE, err |-> "none", groups |-> <<>>]

learnable_params ==
    IF PredictorLr.err # "none"
    THEN [called |-> TRUE, err |-> PredictorLr.err, groups |-> <<>>]
    ELSE [called |-> TRUE, err |-> "none",
          groups |-> ParentLearnableParams \o
              <<[name |-> "distill_predictor", lr |-> PredictorLr.lr,
                 weight_decay |-> weight_decay]>>]

LearnableParams ==
    /\ ~params.called
    /\ params' = learnable_params
    /\ UNCHANGED <<dataVars, distill_lamb, lr, weight_decay, distill_predictor, step>>

NoStep ==
    [called |-> FALSE, z |-> <<0, 0>>, frozen_z |-> <<0, 0>>, loss |-> Frac(0, 1),
     p |-> <<0, 0>>, distill_loss |-> Frac(0, 1), ret |-> Frac(0, 1)]

\* each prediction paired with the teacher embedding of the other view
DistillLossCrossed(p1, p2, frozen_z1, frozen_z2) ==
    Half(Add(byol_loss_func(p1, frozen_z2), byol_loss_func(p2, frozen_z1)))

\* distill_loss = (byol_loss_func(p1, frozen_z1) + byol_loss_func(p2, frozen_z2)) / 2
DistillLoss(p1, p2, frozen_z1, frozen_z2) ==
    Half(Add(byol_loss_func(p1, frozen_z1), byol_loss_func(p2, frozen_z2)))

\* return out["loss"] + self.distill_lamb * distill_loss
CombinedLoss(loss, distill_loss) == Add(loss, Mul(distill_lamb, distill_loss))

\* out is what the parent's training_step returned for the batch
training_step(out) ==
    LET z1 == out.z[1]
        z2 == out.z[2]
        frozen_z1 == out.frozen_z[1]
        frozen_z2 == out.frozen_z[2]
        p1 == distill_predictor[z1]
        p2 == distill_predictor[z2]
        distill_loss == DistillLoss(p1, p2, frozen_z1, frozen_z2)
    IN [called |-> TRUE, z |-> out.z, frozen_z |-> out.frozen_z, loss |-> out.loss,
        p |-> <<p1, p2>>, distill_loss |-> distill_loss,
        ret |-> CombinedLoss(out.loss, distill_loss)]

TrainingStep ==
    /\ ~step.called
    /\ \E z1 \in Emb, z2 \in Emb, fz1 \in Emb, fz2 \in Emb, loss \in Losses :
          step' = training_step([z |-> <<z1, z2>>, frozen_z |-> <<fz1, fz2>>,
                                 loss |-> loss])
    /\ UNCHANGED <<dataVars, distill_lamb, lr, weight_decay, distill_predictor, params>>

---------------------------------------------------------------------------
(* Specifications *)

DataIdle ==
    /\ cfg \in {c \in CallConfigs :
                  /\ c.training_data_source = "all_tasks"
                  /\ IsNone(c.training_task_idx)
                  /\ c.training_split_strategy = "class"
                  /\ IsNone(c.training_split_seed)
                  /\ ~c.replay
                  /\ IsNone(c.replay_proportion)
                  /\ IsNone(c.replay_memory_bank_size)
                  /\ IsNone(c.semi_supervised)}
    /\ result = NoResult
    /\ prevResult = NoResult
    /\ globalRng = 0

DistillIdle ==
    /\ distill_lamb = Frac(1, 1)
    /\ lr = Frac(1, 1)
    /\ weight_decay = Frac(0, 1)
    /\ distill_predictor = [e \in Emb |-> e]
    /\ params = NoParams
    /\ step = NoStep

\* data preparation: any accepted call, made twice with the same arguments
Init ==
    /\ cfg \in CallConfigs
    /\ result = NoResult
    /\ prevResult = NoResult
    /\ globalRng \in 0..(RngStates - 1)
    /\ DistillIdle

Next == PrepareData

Spec == Init /\ [][Next]_vars

\* distillation wrapper: any construction, then its property and its step
DistillInit ==
    /\ DataIdle
    /\ distill_lamb \in Lambs
    /\ lr \in Lrs
    /\ weight_decay \in WeightDecays
    /\ distill_predictor \in [Emb -> Emb]
    /\ params = NoParams
    /\ step = NoStep

DistillNext == LearnableParams \/ TrainingStep

DistillSpec == DistillInit /\ [][DistillNext]_vars

---------------------------------------------------------------------------
(* Claims on the data preparation, checked under Spec *)

TaskIdx == Val(cfg.training_task_idx)
TaskOfSample(i) == task_of(cfg.training_split_strategy, cfg.training_split_seed, i)
PartitionsByTask == cfg.training_data_source \in {"current_task", "seen_tasks"}
\* the subset of task 0 alone or of tasks 0..k, as the partitioner yields it
TaskSubset(ks) ==
    split_dataset(train_dataset, ks, cfg.training_split_strategy,
                  cfg.training_split_seed)
\* s is t with some occurrences left out and the rest permuted
IsRestriction(s, t) ==
    \E f \in [1..Len(s) -> 1..Len(t)] :
        /\ \A i, j \in 1..Len(s) : i # j => f[i] # f[j]
        /\ \A i \in 1..Len(s) : s[i] = t[f[i]]

\* C1: a call with training_data_source = "all_tasks" and replay = True,
\* whatever the other arguments, raises the configuration exception of line
\* 335, yields no final subset, never reaches the replay sampler or
\* prepare_dataloaders and returns no loaders.
C1_AllTasksReplayRejected ==
    (result.called /\ cfg.training_data_source = "all_tasks" /\ cfg.replay) =>
        /\ result.err = "Exception"
        /\ result.raisedAt = 335
        /\ IsNone(result.train)
        /\ ~result.samplerCalled
        /\ ~result.subsampled
        /\ ~result.loaders

C1_Witness ==
    /\ result.called
    /\ cfg.training_data_source = "all_tasks"
    /\ cfg.replay
    /\ ~IsNone(cfg.semi_supervised)
    /\ ~IsNone(cfg.replay_memory_bank_size)
    /\ result.err = "Exception"

\* C2: with replay enabled and a source of current_task or seen_tasks, the
\* replay sampler is called with exactly the task indices 0 .. training_task_idx-1
\* and no sample of the replay subset belongs to the current task or a later one.
C2_ReplayOnlyPriorTasks ==
    (result.called /\ cfg.replay /\ PartitionsByTask) =>
        /\ result.err # "ConfigurationError" => result.samplerCalled
        /\ result.samplerCalled =>
              /\ result.replay_task_idxs = {t \in 0..(NumTasks - 1) : t < TaskIdx}
              /\ ~IsNone(result.replay_dataset) =>
                    \A i \in Elems(Val(result.replay_dataset)) :
                        TaskOfSample(i) < TaskIdx

C2_Witness ==
    /\ result.called /\ cfg.replay /\ PartitionsByTask
    /\ result.samplerCalled
    /\ TaskIdx >= 1
    /\ TaskIdx < NumTasks - 1
    /\ ~IsNone(result.replay_dataset)
    /\ Val(result.replay_dataset) # <<>>

C4_SemiAfterReplayCompletes ==
    (/\ result.called
     /\ result.concatenated
     /\ Val(result.replay_dataset) # <<>>
     /\ ~IsNone(cfg.semi_supervised)
     /\ train_test_split(Val(result.augmented), Val(cfg.semi_supervised),
                         globalRng).err = "none") =>
        /\ result.err = "none"
        /\ result.subsampled
        /\ result.loaders
        /\ IsRestriction(Val(result.train),
                         Val(result.primary) \o Val(result.replay_dataset))

\* C7: two calls with identical arguments, whatever the seed argument and also
\* when it is not supplied, end the same way with the same final subset.
C7_SameInputsSameSubset ==
    (result.called /\ prevResult.called) =>
        /\ result.err = prevResult.err
        /\ result.train = prevResult.train

\* C8: with replay enabled on a partitioned source and neither
\* replay_proportion nor replay_memory_bank_size supplied, the call fails with
\* a configuration error and returns no loaders.
C8_UnsetReplayBudgetRejected ==
    (/\ result.called /\ cfg.replay /\ PartitionsByTask
     /\ IsNone(cfg.replay_proportion)
     /\ IsNone(cfg.replay_memory_bank_size)) =>
        /\ result.err \in {"Exception", "ConfigurationError"}
        /\ ~result.loaders

\* C9: under seen_tasks with replay and semi_supervised off, the partitioner
\* is called with exactly the task indices 0..training_task_idx, and for
\* 1 <= k < num_tasks the final subset for task index k contains every sample
\* of the final subset the same call yields for task index k-1.
C9_SeenTasksAccumulate ==
    (/\ result.called /\ cfg.training_data_source = "seen_tasks"
     /\ ~cfg.replay /\ IsNone(cfg.semi_supervised)
     /\ TaskIdx < NumTasks) =>
        /\ result.partitioner_task_idxs = {t \in 0..(NumTasks - 1) : t <= TaskIdx}
        /\ result.err = "none"
        /\ TaskIdx >= 1 =>
              LET before == prepare_data(
                      [cfg EXCEPT !.training_task_idx = Some(TaskIdx - 1)], globalRng)
              IN /\ before.err = "none"
                 /\ Elems(Val(before.train)) \subseteq Elems(Val(result.train))

C9_Witness ==
    /\ result.called /\ cfg.training_data_source = "seen_tasks"
    /\ ~cfg.replay /\ IsNone(cfg.semi_supervised)
    /\ TaskIdx >= 1 /\ TaskIdx < NumTasks
    /\ cfg.training_split_strategy = "random"
    /\ result.loaders

\* C10: with replay enabled and training_task_idx >= 1, under seen_tasks every
\* sample of the replay subset is already in the primary subset, so the
\* concatenation holds no new distinct sample; under current_task the replay
\* subset and the primary subset share no sample.
C10_ReplayVersusPrimary ==
    (/\ result.called /\ cfg.replay /\ PartitionsByTask
     /\ result.samplerCalled /\ TaskIdx >= 1) =>
        /\ ~IsNone(result.replay_dataset)
        /\ result.concatenated
        /\ cfg.training_data_source = "seen_tasks" =>
              /\ Elems(Val(result.replay_dataset)) \subseteq Elems(Val(result.primary))
              /\ Elems(Val(result.augmented)) = Elems(Val(result.primary))
        /\ cfg.training_data_source = "current_task" =>
              Elems(Val(result.replay_dataset)) \cap Elems(Val(result.primary)) = {}

C10_Witness ==
    /\ result.called /\ cfg.replay
    /\ cfg.training_data_source = "seen_tasks"
    /\ result.samplerCalled /\ TaskIdx >= 1
    /\ Val(result.replay_dataset) # <<>>
    /\ Len(Val(result.augmented)) > Len(Val(result.primary))

---------------------------------------------------------------------------
(* Claims on the distillation wrapper, checked under DistillSpec *)

\* C5: for every distill_lamb >= 0, 0 included, learnable_params yields the
\* parameter groups without an error, and the predictor group's learning rate
\* is lr / distill_lamb when distill_lamb < 1 and lr when distill_lamb >= 1.
C5_PredictorLrDefined ==
    params.called =>
        /\ params.err = "none"
        /\ Len(params.groups) = 2
        /\ LET g == params.groups[2]
           IN /\ g.name = "distill_predictor"
              /\ distill_lamb[1] >= distill_lamb[2] => g.lr = lr
              /\ distill_lamb[1] < distill_lamb[2] =>
                    g.lr[1] * lr[2] * distill_lamb[1]
                        = lr[1] * distill_lamb[2] * g.lr[2]

\* C6: training_step returns primary_loss + distill_lamb * distill_loss with
\* distill_loss = (loss_fn(p1, frozen_z1) + loss_fn(p2, frozen_z2)) / 2, p1 and
\* p2 the predictor's outputs for z1 and z2, each paired with the teacher
\* embedding of its own view; with distill_lamb = 0 it returns the primary loss.
C6_CombinedLoss ==
    step.called =>
        LET p1 == distill_predictor[step.z[1]]
            p2 == distill_predictor[step.z[2]]
            l1 == 2 - 2 * Cos(p1, step.frozen_z[1])
            l2 == 2 - 2 * Cos(p2, step.frozen_z[2])
        IN /\ step.p = <<p1, p2>>
           /\ step.distill_loss[1] * 2 = (l1 + l2) * step.distill_loss[2]
           /\ step.ret[1] * (2 * step.loss[2] * distill_lamb[2])
                 = step.ret[2] * (2 * step.loss[1] * distill_lamb[2]
                                  + distill_lamb[1] * (l1 + l2) * step.loss[2])
           /\ distill_lamb[1] = 0 => step.ret = step.loss

C6_Witness ==
    /\ step.called
    /\ step.z[1] # step.z[2]
    /\ step.frozen_z[1] # step.frozen_z[2]
    /\ distill_predictor[step.z[1]] # distill_predictor[step.z[2]]
    /\ distill_lamb = Frac(1, 4)
    /\ step.ret # step.loss

====
